---- MODULE Spec2Model ----
(***************************************************************************)
(* Model of the logon-pending session state of quickfix                    *)
(* (logon_state.go): logonState.FixMsgIn, logonState.Timeout,              *)
(* logonState.Stop and shutdownWithReason, together with the session       *)
(* collaborators they call.                                                *)
(*                                                                         *)
(* A string of the program is a tuple of one-character strings, so that    *)
(* the regular expression and strconv.Atoi are computed on characters.     *)
(***************************************************************************)
EXTENDS Integers, Sequences, FiniteSets, TLC

\* ------------------------------------------------------------------ bounds
\* number of events (messages, timeouts, stops) dispatched to the state
MaxEvents == 2
\* the persisted counters of the store at start-up are in 1..MaxInitSeq
MaxInitSeq == 2

\* --------------------------------------------------------------- strings
Digits == {"0", "1", "2", "3", "4", "5", "6", "7", "8", "9"}

\* value of one decimal digit
DigitVal(c) ==
  CASE c = "0" -> 0 [] c = "1" -> 1 [] c = "2" -> 2 [] c = "3" -> 3
    [] c = "4" -> 4 [] c = "5" -> 5 [] c = "6" -> 6 [] c = "7" -> 7
    [] c = "8" -> 8 [] c = "9" -> 9

\* "MsgSeqNum too low, expecting "
RegexPrefix ==
  <<"M", "s", "g", "S", "e", "q", "N", "u", "m", " ", "t", "o", "o", " ",
    "l", "o", "w", ",", " ", "e", "x", "p", "e", "c", "t", "i", "n", "g", " ">>

\* " but received "
RegexMid ==
  <<" ", "b", "u", "t", " ", "r", "e", "c", "e", "i", "v", "e", "d", " ">>

\* the literal lit occurs in t at position i
LiteralAt(t, i, lit) ==
  /\ i >= 1
  /\ i + Len(lit) - 1 <= Len(t)
  /\ \A k \in 1..Len(lit) : t[i + k - 1] = lit[k]

\* last position of the longest run of digits of t that starts at i
\* (i - 1 when t has no digit at i): the greedy \d+
DigitRunEnd(t, i) ==
  LET ends == {j \in (i - 1)..Len(t) : \A k \in i..j : t[k] \in Digits}
  IN  CHOOSE j \in ends : \A k \in ends : k <= j

\* RegexMatchAt for a pattern that stops after " but received "
RegexMatchAt_NoReceived(t, i) ==
  /\ LiteralAt(t, i, RegexPrefix)
  /\ LET d == i + Len(RegexPrefix)
         e == DigitRunEnd(t, d)
     IN  /\ e >= d
         /\ LiteralAt(t, e + 1, RegexMid)

\* the whole pattern matches t starting at position i
RegexMatchAt(t, i) ==
  /\ LiteralAt(t, i, RegexPrefix)
  /\ LET d == i + Len(RegexPrefix)
         e == DigitRunEnd(t, d)
         m == e + 1 + Len(RegexMid)
     IN  /\ e >= d
         /\ LiteralAt(t, e + 1, RegexMid)
         /\ m <= Len(t)
         /\ t[m] \in Digits

\* FindStringSubmatch whose group is the second number (the received one)
FindStringSubmatch_Received(t) ==
  LET starts == {i \in 1..Len(t) : RegexMatchAt(t, i)}
  IN  IF starts = {}
      THEN [nil |-> TRUE, group1 |-> <<>>]
      ELSE LET i == CHOOSE s \in starts : \A k \in starts : s <= k
               d == i + Len(RegexPrefix)
               m == DigitRunEnd(t, d) + 1 + Len(RegexMid)
           IN  [nil |-> FALSE, group1 |-> SubSeq(t, m, DigitRunEnd(t, m))]

\* msgSeqNumTooLowRegex.FindStringSubmatch: the leftmost match anywhere in
\* the text; res.nil when there is none, else res.group1 is the first \d+
FindStringSubmatch(t) ==
  LET starts == {i \in 1..Len(t) : RegexMatchAt(t, i)}
  IN  IF starts = {}
      THEN [nil |-> TRUE, group1 |-> <<>>]
      ELSE LET i == CHOOSE s \in starts : \A k \in starts : s <= k
               d == i + Len(RegexPrefix)
           IN  [nil |-> FALSE, group1 |-> SubSeq(t, d, DigitRunEnd(t, d))]

\* decimal digits of the largest int (64 bit): 9223372036854775807
MaxIntDigits ==
  <<"9", "2", "2", "3", "3", "7", "2", "0", "3", "6", "8", "5", "4", "7",
    "7", "5", "8", "0", "7">>

RECURSIVE StripZeros(_)
StripZeros(s) ==
  IF Len(s) > 1 /\ s[1] = "0" THEN StripZeros(Tail(s)) ELSE s

RECURSIVE DigitsValue(_)
DigitsValue(s) ==
  IF s = <<>> THEN 0
  ELSE 10 * DigitsValue(SubSeq(s, 1, Len(s) - 1)) + DigitVal(s[Len(s)])

\* a and b are digit strings of the same length: a > b
RECURSIVE DigitsGreater(_, _)
DigitsGreater(a, b) ==
  IF a = <<>> THEN FALSE
  ELSE IF DigitVal(a[1]) # DigitVal(b[1]) THEN DigitVal(a[1]) > DigitVal(b[1])
  ELSE DigitsGreater(Tail(a), Tail(b))

\* the digit string s is a value above the largest int
OutOfRange(s) ==
  LET z == StripZeros(s)
  IN  \/ Len(z) > Len(MaxIntDigits)
      \/ Len(z) = Len(MaxIntDigits) /\ DigitsGreater(z, MaxIntDigits)

\* strconv.Atoi on a string of digits: the value, or a range error
Atoi(s) ==
  IF Len(s) < Len(MaxIntDigits)
  THEN [err |-> FALSE, n |-> DigitsValue(s)]
  ELSE IF OutOfRange(s)
  THEN [err |-> TRUE, n |-> 0]
  ELSE [err |-> FALSE, n |-> DigitsValue(StripZeros(s))]

\* -------------------------------------------------------------- messages
msgTypeLogon == "A"
msgTypeLogout == "5"
\* message types that are neither Logon nor Logout (Heartbeat, NewOrderSingle)
OtherMsgTypes == {"0", "D"}

\* "MsgSeqNum too low, expecting 42 but received 7"
TextTooLow == RegexPrefix \o <<"4", "2">> \o RegexMid \o <<"7">>
\* "MsgSeqNum too low, expecting 0 but received 5"
TextTooLowZero == RegexPrefix \o <<"0">> \o RegexMid \o <<"5">>
\* "MsgSeqNum too low, expecting 99999999999999999999 but received 7"
TextTooLowHuge ==
  RegexPrefix \o [i \in 1..20 |-> "9"] \o RegexMid \o <<"7">>
\* "x MsgSeqNum too low, expecting 42 but received 7."
TextEmbedded == <<"x", " ">> \o TextTooLow \o <<".">>
\* "bye"
TextUnrelated == <<"b", "y", "e">>
\* "MsgSeqNum too low, expecting 42 but received "
TextNoReceived == RegexPrefix \o <<"4", "2">> \o RegexMid
\* "msgSeqNum too low, expecting 42 but received 7"
TextLowerCase == <<"m">> \o Tail(TextTooLow)

LogoutTexts ==
  {TextTooLow, TextTooLowZero, TextTooLowHuge, TextEmbedded, TextUnrelated,
   TextNoReceived, TextLowerCase}
BodyTexts == {TextTooLow, TextUnrelated}

\* a parsed message: the MsgType header field (present, absent or
\* malformed) and the Text body field (present or not)
Msg(typeSt, msgType, hasText, text) ==
  [typeSt |-> typeSt, msgType |-> msgType, hasText |-> hasText, text |-> text]

MsgsOfType(typeSt, msgType, texts) ==
  {Msg(typeSt, msgType, TRUE, t) : t \in texts}
    \cup {Msg(typeSt, msgType, FALSE, <<>>)}

Messages ==
  MsgsOfType("present", msgTypeLogout, LogoutTexts)
    \cup MsgsOfType("present", msgTypeLogon, BodyTexts)
    \cup UNION {MsgsOfType("present", ty, BodyTexts) : ty \in OtherMsgTypes}
    \cup MsgsOfType("absent", "", BodyTexts)
    \cup MsgsOfType("malformed", "", BodyTexts)

\* msg.Header.GetBytes(tagMsgType)
GetBytes(msg) ==
  IF msg.typeSt = "present"
  THEN [err |-> "", val |-> msg.msgType]
  ELSE [err |-> "MsgType " \o msg.typeSt, val |-> ""]

\* msg.Body.GetString(tagText)
GetString(msg) ==
  IF msg.hasText
  THEN [err |-> "", val |-> msg.text]
  ELSE [err |-> "Text absent", val |-> <<>>]

\* ------------------------------------------------ collaborator outcomes
\* what session.handleLogon returns: nil or a typed error
LogonResults == {"nil", "RejectLogon", "targetTooLow", "targetTooHigh", "other"}

\* err.Error() of a logon validation error
ErrorText(kind) ==
  CASE kind = "RejectLogon" -> "logon rejected"
    [] kind = "targetTooLow" -> "target MsgSeqNum too low"
    [] kind = "targetTooHigh" -> "target MsgSeqNum too high"
    [] OTHER -> "logon validation failed"

\* tooHighErr.Error()
TooHighErrText == "resend request failed"

\* the outcomes of the collaborators during one call of a handler
Envs ==
  [handleLogon : LogonResults, doTargetTooHigh : BOOLEAN, send : BOOLEAN,
   incr : BOOLEAN, force : BOOLEAN]

\* the outcomes that can matter for a message: only a Logon reaches the
\* validation, the too-high recovery, the send and the increment, and only
\* a Logout reaches the force-set
EnvsOf(msg) ==
  {env \in Envs :
     /\ msg.msgType # msgTypeLogon =>
          /\ env.handleLogon = "nil"
          /\ env.doTargetTooHigh /\ env.send /\ env.incr
     /\ msg.msgType # msgTypeLogout => env.force}

\* timer events (internal.Event)
LogonTimeout == "LogonTimeout"
TimeoutEvents == {LogonTimeout, "PeerTimeout", "NeedHeartbeat", "LogoutTimeout"}

\* which collaborators a handler has called, and with what outcome
NoCalls ==
  [handleLogon |-> "none", doTargetTooHigh |-> "none", send |-> "none",
   incr |-> "none", force |-> "none", forceArg |-> -1]

OkFail(ok) == IF ok THEN "ok" ELSE "fail"

\* ----------------------------------------------------------------- state
VARIABLES
  state,                      \* the session's current sessionState
  nextSenderMsgSeqNum,        \* session.store: next sender sequence number
  nextTargetMsgSeqNum,        \* session.store: next target sequence number
  LogonForceSenderMsgSeqNum,  \* session configuration flag
  log,                        \* session.log: entries <<kind, text, argument>>
  sent,                       \* logouts handed to dropAndSendInReplyTo
  notified,                   \* number of application.InSession calls
  inSessions,                 \* number of logon-pending to in-session transitions
  events,                     \* number of events dispatched so far
  ev,                         \* the last event dispatched and the calls it made
  pre                         \* the session just before the last event

vars ==
  <<state, nextSenderMsgSeqNum, nextTargetMsgSeqNum,
    LogonForceSenderMsgSeqNum, log, sent, notified, inSessions, events,
    ev, pre>>

\* the session as one value: what a handler reads and what it leaves
Session ==
  [state |-> state, sender |-> nextSenderMsgSeqNum,
   target |-> nextTargetMsgSeqNum, force |-> LogonForceSenderMsgSeqNum,
   log |-> log, sent |-> sent, notified |-> notified, calls |-> NoCalls]

\* ------------------------------------------------- session collaborators
\* session.log.OnEvent / OnEventf
OnEvent(s, text, arg) == [s EXCEPT !.log = Append(@, <<"event", text, arg>>)]

\* session.logError
logError(s, err) == [s EXCEPT !.log = Append(@, <<"error", err, 0>>)]

\* handleStateError: logs the error, the next state is latent
handleStateError(s, err) == [logError(s, err) EXCEPT !.state = "latentState"]

\* session.buildLogout
buildLogout(reason) == [msgType |-> msgTypeLogout, text |-> reason]

\* session.dropAndSendInReplyTo: one send attempt, which may fail
dropAndSendInReplyTo(s, out, inReplyTo, ok) ==
  [s EXCEPT !.sent = Append(@, [msg |-> out, inReplyTo |-> inReplyTo, ok |-> ok]),
            !.calls.send = OkFail(ok)]

\* session.store.IncrNextTargetMsgSeqNum: atomic, may fail
IncrNextTargetMsgSeqNum(s, ok) ==
  [s EXCEPT !.target = IF ok THEN @ + 1 ELSE @, !.calls.incr = OkFail(ok)]

\* session.forceNextSenderMsgSeqNum: the store's force-set, atomic, may fail
forceNextSenderMsgSeqNum(s, n, ok) ==
  [s EXCEPT !.sender = IF ok THEN n ELSE @, !.calls.force = OkFail(ok),
            !.calls.forceArg = n]

\* session.handleLogon: validates the logon, returns nil or a typed error
handleLogon(s, msg, res) == [s EXCEPT !.calls.handleLogon = res]

\* session.doTargetTooHigh: on success the session goes to the resend state
doTargetTooHigh(s, ok) ==
  [s EXCEPT !.calls.doTargetTooHigh = OkFail(ok),
            !.state = IF ok THEN "resendState" ELSE @]

\* session.application.InSession
InSession(s) == [s EXCEPT !.notified = @ + 1]

\* ---------------------------------------------------- shutdownWithReason
\* shutdownWithReason that increments again after a successful increment
shutdownWithReason_IncrTwice(s, msg, incrNextTargetMsgSeqNum, reason, env) ==
  LET s1 == OnEvent(s, reason, 0)
      logout == buildLogout(reason)
      s2 == dropAndSendInReplyTo(s1, logout, msg, env.send)
      s3 == IF ~env.send THEN logError(s2, "send failed") ELSE s2
      s4 == IF incrNextTargetMsgSeqNum
            THEN LET s5 == IncrNextTargetMsgSeqNum(s3, env.incr)
                 IN  IF ~env.incr THEN logError(s5, "store failed")
                     ELSE IncrNextTargetMsgSeqNum(s5, env.incr)
            ELSE s3
  IN  [s4 EXCEPT !.state = "latentState"]

\* shutdownWithReason that returns as soon as the send fails
shutdownWithReason_StopOnSendError(s, msg, incrNextTargetMsgSeqNum, reason, env) ==
  LET s1 == OnEvent(s, reason, 0)
      logout == buildLogout(reason)
      s2 == dropAndSendInReplyTo(s1, logout, msg, env.send)
      s3 == IF ~env.send THEN logError(s2, "send failed") ELSE s2
      s4 == IF incrNextTargetMsgSeqNum /\ env.send
            THEN LET s5 == IncrNextTargetMsgSeqNum(s3, env.incr)
                 IN  IF ~env.incr THEN logError(s5, "store failed") ELSE s5
            ELSE s3
  IN  [s4 EXCEPT !.state = "latentState"]

shutdownWithReason(s, msg, incrNextTargetMsgSeqNum, reason, env) ==
  LET s1 == OnEvent(s, reason, 0)
      logout == buildLogout(reason)
      s2 == dropAndSendInReplyTo(s1, logout, msg, env.send)
      s3 == IF ~env.send THEN logError(s2, "send failed") ELSE s2
      s4 == IF incrNextTargetMsgSeqNum
            THEN LET s5 == IncrNextTargetMsgSeqNum(s3, env.incr)
                 IN  IF ~env.incr THEN logError(s5, "store failed") ELSE s5
            ELSE s3
  IN  [s4 EXCEPT !.state = "latentState"]

\* ----------------------------------------------------- logonState.FixMsgIn
\* OnLogout that returns no state when the reason does not match
OnLogout_NoMatchStays(s, msg, env) ==
  LET s1 == OnEvent(s, "Invalid Session State: Received Logout", 0)
      reason == GetString(msg)
      res == FindStringSubmatch(reason.val)
      expectedMsgSeqNum == Atoi(res.group1)
      s2 == OnEvent(s1, "Forcing next sender message sequence number",
                    expectedMsgSeqNum.n)
      s3 == forceNextSenderMsgSeqNum(s2, expectedMsgSeqNum.n, env.force)
  IN  IF reason.err # "" THEN handleStateError(s1, reason.err)
      ELSE IF res.nil THEN s1
      ELSE IF s.force
      THEN IF expectedMsgSeqNum.err THEN handleStateError(s1, "Atoi: out of range")
           ELSE IF ~env.force THEN handleStateError(s3, "store failed")
           ELSE [s3 EXCEPT !.state = "latentState"]
      ELSE [s1 EXCEPT !.state = "latentState"]

\* OnLogout that counts the logout as consumed: it increments the
\* next-target sequence number before it returns
OnLogout_Consumes(s, msg, env) ==
  LET s1 == OnEvent(s, "Invalid Session State: Received Logout", 0)
      reason == GetString(msg)
      res == FindStringSubmatch(reason.val)
      expectedMsgSeqNum == Atoi(res.group1)
      s2 == OnEvent(s1, "Forcing next sender message sequence number",
                    expectedMsgSeqNum.n)
      s3 == forceNextSenderMsgSeqNum(s2, expectedMsgSeqNum.n, env.force)
  IN  IF reason.err # "" THEN handleStateError(s1, reason.err)
      ELSE IF res.nil
      THEN [IncrNextTargetMsgSeqNum(s1, TRUE) EXCEPT !.state = "latentState"]
      ELSE IF s.force
      THEN IF expectedMsgSeqNum.err THEN handleStateError(s1, "Atoi: out of range")
           ELSE IF ~env.force THEN handleStateError(s3, "store failed")
           ELSE [IncrNextTargetMsgSeqNum(s3, TRUE) EXCEPT !.state = "latentState"]
      ELSE [IncrNextTargetMsgSeqNum(s1, TRUE) EXCEPT !.state = "latentState"]

\* OnLogout that forces the sequence number whatever the configuration
OnLogout_AlwaysForce(s, msg, env) ==
  LET s1 == OnEvent(s, "Invalid Session State: Received Logout", 0)
      reason == GetString(msg)
      res == FindStringSubmatch(reason.val)
      expectedMsgSeqNum == Atoi(res.group1)
      s2 == OnEvent(s1, "Forcing next sender message sequence number",
                    expectedMsgSeqNum.n)
      s3 == forceNextSenderMsgSeqNum(s2, expectedMsgSeqNum.n, env.force)
  IN  IF reason.err # "" THEN handleStateError(s1, reason.err)
      ELSE IF res.nil THEN [s1 EXCEPT !.state = "latentState"]
      ELSE IF expectedMsgSeqNum.err THEN handleStateError(s1, "Atoi: out of range")
      ELSE IF ~env.force THEN handleStateError(s3, "store failed")
      ELSE [s3 EXCEPT !.state = "latentState"]

\* lines 47-79: a Logout received while waiting for the Logon
OnLogout(s, msg, env) ==
  LET s1 == OnEvent(s, "Invalid Session State: Received Logout", 0)
      reason == GetString(msg)
      res == FindStringSubmatch(reason.val)
      expectedMsgSeqNum == Atoi(res.group1)
      s2 == OnEvent(s1, "Forcing next sender message sequence number",
                    expectedMsgSeqNum.n)
      s3 == forceNextSenderMsgSeqNum(s2, expectedMsgSeqNum.n, env.force)
  IN  IF reason.err # "" THEN handleStateError(s1, reason.err)
      ELSE IF res.nil THEN [s1 EXCEPT !.state = "latentState"]
      ELSE IF s.force
      THEN IF expectedMsgSeqNum.err THEN handleStateError(s1, "Atoi: out of range")
           ELSE IF ~env.force THEN handleStateError(s3, "store failed")
           ELSE [s3 EXCEPT !.state = "latentState"]
      ELSE [s1 EXCEPT !.state = "latentState"]

\* OnUnexpected that logs nothing
OnUnexpected_Silent(s, msg) == [s EXCEPT !.state = "latentState"]

\* OnUnexpected that drops the message and goes on waiting for the logon
OnUnexpected_Stays(s, msg) ==
  OnEvent(s, "Invalid Session State: Received Msg", 0)

\* OnUnexpected that answers with a logout
OnUnexpected_Logout(s, msg) ==
  shutdownWithReason(s, msg, FALSE, "Invalid Session State: Received Msg",
                     [handleLogon |-> "nil", doTargetTooHigh |-> TRUE,
                      send |-> TRUE, incr |-> TRUE, force |-> TRUE])

\* lines 81-84: a message that is neither Logon nor Logout
OnUnexpected(s, msg) ==
  [OnEvent(s, "Invalid Session State: Received Msg", 0)
     EXCEPT !.state = "latentState"]

\* OnRejectLogon with the increment flag dropped
OnRejectLogon_NoIncr(s, msg, err, env) ==
  shutdownWithReason(s, msg, FALSE, ErrorText(err), env)

\* line 89
OnRejectLogon(s, msg, err, env) ==
  shutdownWithReason(s, msg, TRUE, ErrorText(err), env)

\* OnTargetTooLow with the increment flag set
OnTargetTooLow_Incr(s, msg, err, env) ==
  shutdownWithReason(s, msg, TRUE, ErrorText(err), env)

\* line 92
OnTargetTooLow(s, msg, err, env) ==
  shutdownWithReason(s, msg, FALSE, ErrorText(err), env)

\* OnTargetTooHigh that ignores the outcome of the recovery procedure
OnTargetTooHigh_NoFallback(s, msg, err, env) ==
  doTargetTooHigh(s, env.doTargetTooHigh)

\* lines 94-100
OnTargetTooHigh(s, msg, err, env) ==
  LET s1 == doTargetTooHigh(s, env.doTargetTooHigh)
  IN  IF ~env.doTargetTooHigh
      THEN shutdownWithReason(s1, msg, FALSE, TooHighErrText, env)
      ELSE s1

\* OnLogon that notifies the application before it validates the logon
OnLogon_NotifyFirst(s, msg, env) ==
  LET err == env.handleLogon
      s1 == handleLogon(InSession(s), msg, err)
  IN  IF err # "nil"
      THEN CASE err = "RejectLogon" -> OnRejectLogon(s1, msg, err, env)
             [] err = "targetTooLow" -> OnTargetTooLow(s1, msg, err, env)
             [] err = "targetTooHigh" -> OnTargetTooHigh(s1, msg, err, env)
             [] OTHER -> handleStateError(s1, ErrorText(err))
      ELSE [s1 EXCEPT !.state = "inSession"]

\* OnLogon whose switch has no default case: an error of another type
\* falls through to the success path
OnLogon_NoDefault(s, msg, env) ==
  LET err == env.handleLogon
      s1 == handleLogon(s, msg, err)
  IN  IF err \in {"RejectLogon", "targetTooLow", "targetTooHigh"}
      THEN CASE err = "RejectLogon" -> OnRejectLogon(s1, msg, err, env)
             [] err = "targetTooLow" -> OnTargetTooLow(s1, msg, err, env)
             [] err = "targetTooHigh" -> OnTargetTooHigh(s1, msg, err, env)
      ELSE [InSession(s1) EXCEPT !.state = "inSession"]

\* OnLogon that goes in session without notifying the application
OnLogon_NoNotify(s, msg, env) ==
  LET err == env.handleLogon
      s1 == handleLogon(s, msg, err)
  IN  IF err # "nil"
      THEN CASE err = "RejectLogon" -> OnRejectLogon(s1, msg, err, env)
             [] err = "targetTooLow" -> OnTargetTooLow(s1, msg, err, env)
             [] err = "targetTooHigh" -> OnTargetTooHigh(s1, msg, err, env)
             [] OTHER -> handleStateError(s1, ErrorText(err))
      ELSE [s1 EXCEPT !.state = "inSession"]

\* lines 86-110: a Logon
OnLogon(s, msg, env) ==
  LET err == env.handleLogon
      s1 == handleLogon(s, msg, err)
  IN  IF err # "nil"
      THEN CASE err = "RejectLogon" -> OnRejectLogon(s1, msg, err, env)
             [] err = "targetTooLow" -> OnTargetTooLow(s1, msg, err, env)
             [] err = "targetTooHigh" -> OnTargetTooHigh(s1, msg, err, env)
             [] OTHER -> handleStateError(s1, ErrorText(err))
      ELSE [InSession(s1) EXCEPT !.state = "inSession"]

\* FixMsgIn that goes on with an empty type when MsgType cannot be read
FixMsgInResult_IgnoreErr(s, msg, env) ==
  LET msgType == GetBytes(msg)
  IN  IF msgType.val = msgTypeLogout THEN OnLogout(s, msg, env)
      ELSE IF msgType.val # msgTypeLogon THEN OnUnexpected(s, msg)
      ELSE OnLogon(s, msg, env)

\* the session after logonState.FixMsgIn(session, msg)
FixMsgInResult(s, msg, env) ==
  LET msgType == GetBytes(msg)
  IN  IF msgType.err # "" THEN handleStateError(s, msgType.err)
      ELSE IF msgType.val = msgTypeLogout THEN OnLogout(s, msg, env)
      ELSE IF msgType.val # msgTypeLogon THEN OnUnexpected(s, msg)
      ELSE OnLogon(s, msg, env)

\* Timeout that gives up on every timer event
TimeoutResult_AnyEvent(s, e) ==
  [OnEvent(s, "Timed out waiting for logon response", 0)
     EXCEPT !.state = "latentState"]

\* the session after logonState.Timeout(session, e)
TimeoutResult(s, e) ==
  IF e = LogonTimeout
  THEN [OnEvent(s, "Timed out waiting for logon response", 0)
          EXCEPT !.state = "latentState"]
  ELSE s

\* Stop that logs the request
StopResult_Logs(s) ==
  [OnEvent(s, "Stop requested", 0) EXCEPT !.state = "latentState"]

\* the session after logonState.Stop(session)
StopResult(s) == [s EXCEPT !.state = "latentState"]

\* --------------------------------------------------------------- actions
\* the session installs what the handler left
Install(s, op, msg, e) ==
  /\ state' = s.state
  /\ nextSenderMsgSeqNum' = s.sender
  /\ nextTargetMsgSeqNum' = s.target
  /\ log' = s.log
  /\ sent' = s.sent
  /\ notified' = s.notified
  /\ inSessions' = IF state = "logonState" /\ s.state = "inSession"
                   THEN inSessions + 1 ELSE inSessions
  /\ events' = events + 1
  /\ ev' = [op |-> op, msg |-> msg, e |-> e, calls |-> s.calls]
  /\ pre' = Session
  /\ UNCHANGED LogonForceSenderMsgSeqNum

NoMsg == Msg("absent", "", FALSE, <<>>)
NoEvent == "none"

Init ==
  /\ state = "logonState"
  /\ nextSenderMsgSeqNum \in 1..MaxInitSeq
  /\ nextTargetMsgSeqNum \in 1..MaxInitSeq
  /\ LogonForceSenderMsgSeqNum \in BOOLEAN
  /\ log = <<>>
  /\ sent = <<>>
  /\ notified = 0
  /\ inSessions = 0
  /\ events = 0
  /\ ev = [op |-> "none", msg |-> NoMsg, e |-> NoEvent, calls |-> NoCalls]
  /\ pre = Session

\* an inbound message is dispatched to the logon state
FixMsgIn ==
  /\ state = "logonState"
  /\ events < MaxEvents
  /\ \E msg \in Messages :
       \E env \in EnvsOf(msg) :
         Install(FixMsgInResult(Session, msg, env), "FixMsgIn", msg, NoEvent)

\* a timer event is dispatched to the logon state
Timeout ==
  /\ state = "logonState"
  /\ events < MaxEvents
  /\ \E e \in TimeoutEvents :
       Install(TimeoutResult(Session, e), "Timeout", NoMsg, e)

\* a stop request is dispatched to the logon state
Stop ==
  /\ state = "logonState"
  /\ events < MaxEvents
  /\ Install(StopResult(Session), "Stop", NoMsg, NoEvent)

\* a new connection is established: the session waits for a logon again;
\* the store, the log and the configuration persist
Connect ==
  /\ state # "logonState"
  /\ events < MaxEvents
  /\ state' = "logonState"
  /\ UNCHANGED <<nextSenderMsgSeqNum, nextTargetMsgSeqNum,
                 LogonForceSenderMsgSeqNum, log, sent, notified, inSessions,
                 events>>
  /\ ev' = [op |-> "Connect", msg |-> NoMsg, e |-> NoEvent, calls |-> NoCalls]
  /\ pre' = Session

Next == FixMsgIn \/ Timeout \/ Stop \/ Connect

Spec == Init /\ [][Next]_vars

\* ---------------------------------------------------------------- claims
\* the last event was a message whose MsgType is present and equal to ty
GotType(ty) ==
  /\ ev.op = "FixMsgIn"
  /\ ev.msg.typeSt = "present"
  /\ ev.msg.msgType = ty

\* the last event was a Logon that the validation classified as r
LogonResult(r) == GotType(msgTypeLogon) /\ ev.calls.handleLogon = r

\* the last event was a Logout whose Text is one of texts
LogoutWithText(texts) ==
  GotType(msgTypeLogout) /\ ev.msg.hasText /\ ev.msg.text \in texts

\* what the last event appended to the log and to the outbound messages
NewLog == SubSeq(log, Len(pre.log) + 1, Len(log))
NewSent == SubSeq(sent, Len(pre.sent) + 1, Len(sent))
LogGrows == Len(log) >= Len(pre.log) /\ SubSeq(log, 1, Len(pre.log)) = pre.log
SentGrows == Len(sent) >= Len(pre.sent) /\ SubSeq(sent, 1, Len(pre.sent)) = pre.sent

StoreUnchanged ==
  /\ nextSenderMsgSeqNum = pre.sender
  /\ nextTargetMsgSeqNum = pre.target

Logged(kind) == \E i \in 1..Len(NewLog) : NewLog[i][1] = kind

\* exactly one logout was handed to the transport, in reply to the message
\* handled, with this reason as its text
OneLogoutSent(reason) ==
  /\ SentGrows
  /\ Len(NewSent) = 1
  /\ NewSent[1].msg = [msgType |-> msgTypeLogout, text |-> reason]
  /\ NewSent[1].inReplyTo = ev.msg
  /\ ev.calls.send # "none"

\* the texts of LogoutTexts that the pattern matches, with the number N
\* they carry where it fits an int
MatchingTexts == {TextTooLow, TextTooLowZero, TextTooLowHuge, TextEmbedded}
NonMatchingTexts == {TextUnrelated, TextNoReceived, TextLowerCase}
InRangeTexts == {TextTooLow, TextTooLowZero, TextEmbedded}
ExpectedOf(t) == IF t = TextTooLowZero THEN 0 ELSE 42

\* C1 (as stated): a Logon rejected outright yields latent, sends exactly
\* one logout quoting the rejection reason and does not increment the
\* next-target sequence counter.
C1_Original ==
  LogonResult("RejectLogon") =>
    /\ state = "latentState"
    /\ OneLogoutSent("logon rejected")
    /\ nextTargetMsgSeqNum = pre.target

\* C1 (amended): a Logon rejected outright yields latent, sends exactly one
\* logout quoting the rejection reason and makes exactly one increment call
\* on the next-target sequence counter: the counter is one more when the
\* store's increment succeeds, and unchanged with the error logged when it
\* fails.  The next-sender counter and the application are left alone.
C1_RejectedLogon ==
  LogonResult("RejectLogon") =>
    /\ state = "latentState"
    /\ OneLogoutSent("logon rejected")
    /\ ev.calls.incr # "none"
    /\ ev.calls.incr = "ok" => nextTargetMsgSeqNum = pre.target + 1
    /\ ev.calls.incr = "fail" =>
         /\ nextTargetMsgSeqNum = pre.target
         /\ NewLog[Len(NewLog)] = <<"error", "store failed", 0>>
    /\ nextSenderMsgSeqNum = pre.sender
    /\ notified = pre.notified

C1_Witness ==
  /\ LogonResult("RejectLogon")
  /\ ev.calls.incr = "ok"
  /\ nextTargetMsgSeqNum = pre.target + 1
  /\ Len(sent) = Len(pre.sent) + 1
  /\ state = "latentState"

\* C2 (as stated): a Logon reporting target-too-low yields latent, sends
\* exactly one logout and increments the next-target sequence counter
\* exactly once.
C2_Original ==
  LogonResult("targetTooLow") =>
    /\ state = "latentState"
    /\ OneLogoutSent("target MsgSeqNum too low")
    /\ nextTargetMsgSeqNum = pre.target + 1

\* C2 (amended): a Logon reporting target-too-low yields latent, sends
\* exactly one logout quoting the reason and does not increment the
\* next-target sequence counter: no increment call is made and both
\* counters are unchanged.
C2_TargetTooLow ==
  LogonResult("targetTooLow") =>
    /\ state = "latentState"
    /\ OneLogoutSent("target MsgSeqNum too low")
    /\ ev.calls.incr = "none"
    /\ StoreUnchanged
    /\ notified = pre.notified

C2_Witness ==
  /\ LogonResult("targetTooLow")
  /\ ev.calls.send = "ok"
  /\ Len(sent) = Len(pre.sent) + 1
  /\ nextTargetMsgSeqNum = pre.target
  /\ state = "latentState"

\* the forcing event for the number n is in the log, right after the
\* received-logout event
ForcingLogged(n) ==
  /\ Len(NewLog) >= 2
  /\ NewLog[2] = <<"event", "Forcing next sender message sequence number", n>>

\* C3 (as stated): with the force flag enabled, a Logout whose Text matches
\* the pattern sets the store's next sender sequence number to exactly N
\* through one force-set call, logs the forcing event and yields latent.
\* (A force-set call that the store fails is not held against the claim.)
C3_Original ==
  (LogoutWithText(MatchingTexts) /\ LogonForceSenderMsgSeqNum) =>
    /\ state = "latentState"
    /\ ev.calls.force # "none"
    /\ Len(NewLog) >= 2
    /\ NewLog[2][2] = "Forcing next sender message sequence number"
    /\ ev.msg.text \in InRangeTexts =>
         /\ ev.calls.forceArg = ExpectedOf(ev.msg.text)
         /\ ev.calls.force = "ok" =>
              nextSenderMsgSeqNum = ExpectedOf(ev.msg.text)

\* C3 (amended): with the force flag enabled, a Logout whose Text matches
\* the pattern yields latent in every case.  When N fits an int, the forcing
\* event for N is logged and exactly one force-set call is made with N (not
\* M): the next sender sequence number is N when the call succeeds, and
\* unchanged with the error logged when it fails.  When N does not fit an
\* int, the parse error is logged, no force-set call is made and the store
\* is unchanged.  The next-target counter never changes.
C3_ForcedSenderSeqNum ==
  (LogoutWithText(MatchingTexts) /\ LogonForceSenderMsgSeqNum) =>
    /\ state = "latentState"
    /\ nextTargetMsgSeqNum = pre.target
    /\ LogGrows
    /\ ev.msg.text \in InRangeTexts =>
         /\ ForcingLogged(ExpectedOf(ev.msg.text))
         /\ ev.calls.force # "none"
         /\ ev.calls.forceArg = ExpectedOf(ev.msg.text)
         /\ ev.calls.force = "ok" =>
              /\ nextSenderMsgSeqNum = ExpectedOf(ev.msg.text)
              /\ Len(NewLog) = 2
         /\ ev.calls.force = "fail" =>
              /\ nextSenderMsgSeqNum = pre.sender
              /\ Len(NewLog) = 3
              /\ NewLog[3][1] = "error"
    /\ ev.msg.text \notin InRangeTexts =>
         /\ ev.calls.force = "none"
         /\ nextSenderMsgSeqNum = pre.sender
         /\ Len(NewLog) = 2
         /\ NewLog[2][1] = "error"

C3_Witness ==
  /\ LogoutWithText({TextTooLow})
  /\ LogonForceSenderMsgSeqNum
  /\ ev.calls.force = "ok"
  /\ pre.sender # 42
  /\ nextSenderMsgSeqNum = 42
  /\ state = "latentState"

\* C4: with the force flag disabled, a Logout whose Text matches the
\* pattern changes neither counter of the store, makes no force-set call
\* and yields latent.
C4_FlagDisabled ==
  (LogoutWithText(MatchingTexts) /\ ~LogonForceSenderMsgSeqNum) =>
    /\ state = "latentState"
    /\ StoreUnchanged
    /\ ev.calls.force = "none"
    /\ ev.calls.incr = "none"

C4_Witness ==
  /\ LogoutWithText({TextTooLow})
  /\ ~LogonForceSenderMsgSeqNum
  /\ pre.state = "logonState"
  /\ state = "latentState"
  /\ nextSenderMsgSeqNum # 42

\* C5: a Logout whose Text does not match the pattern never changes the
\* store, whatever the force flag, and always yields latent.
C5_NoMatch ==
  LogoutWithText(NonMatchingTexts) =>
    /\ state = "latentState"
    /\ StoreUnchanged
    /\ ev.calls.force = "none"
    /\ ev.calls.incr = "none"

C5_Witness ==
  /\ LogoutWithText({TextNoReceived})
  /\ LogonForceSenderMsgSeqNum
  /\ pre.state = "logonState"
  /\ state = "latentState"

\* C6: a Logon accepted by the validation yields the in-session state and
\* exactly one application notification (InSession) for that message.
C6_AcceptedLogon ==
  LogonResult("nil") =>
    /\ state = "inSession"
    /\ notified = pre.notified + 1

C6_Witness ==
  /\ LogonResult("nil")
  /\ pre.state = "logonState"
  /\ state = "inSession"
  /\ notified >= 1

\* C7: a message whose type is neither Logon nor Logout yields latent,
\* sends no outbound message, does not change the store and does not
\* notify the application.
C7_UnexpectedMsg ==
  (\E ty \in OtherMsgTypes : GotType(ty)) =>
    /\ state = "latentState"
    /\ sent = pre.sent
    /\ ev.calls.send = "none"
    /\ StoreUnchanged
    /\ notified = pre.notified

C7_Witness ==
  /\ GotType("D")
  /\ ev.msg.hasText
  /\ pre.state = "logonState"
  /\ state = "latentState"

\* C8: a message whose MsgType is absent or malformed yields latent with a
\* logged error, whatever the body, with no logout sent, no store change
\* and no application notification.
C8_NoMsgType ==
  (ev.op = "FixMsgIn" /\ ev.msg.typeSt # "present") =>
    /\ state = "latentState"
    /\ LogGrows
    /\ Len(NewLog) = 1
    /\ NewLog[1][1] = "error"
    /\ sent = pre.sent
    /\ StoreUnchanged
    /\ notified = pre.notified
    /\ ev.calls = NoCalls

C8_Witness ==
  /\ ev.op = "FixMsgIn"
  /\ ev.msg.typeSt = "malformed"
  /\ ev.msg.hasText
  /\ ev.msg.text = TextTooLow
  /\ LogonForceSenderMsgSeqNum
  /\ state = "latentState"

\* C9: a Logon reporting target-too-high is delegated to the too-high
\* recovery procedure: when it succeeds, the state it returns is the next
\* state and no logout is sent; when it fails, exactly one logout is sent,
\* the next state is latent and the next-target counter is not incremented.
C9_TargetTooHigh ==
  LogonResult("targetTooHigh") =>
    /\ ev.calls.doTargetTooHigh # "none"
    /\ ev.calls.doTargetTooHigh = "ok" =>
         /\ state = "resendState"
         /\ sent = pre.sent
         /\ ev.calls.send = "none"
    /\ ev.calls.doTargetTooHigh = "fail" =>
         /\ state = "latentState"
         /\ OneLogoutSent("resend request failed")
         /\ nextTargetMsgSeqNum = pre.target
         /\ ev.calls.incr = "none"

C9_Witness ==
  /\ LogonResult("targetTooHigh")
  /\ ev.calls.doTargetTooHigh = "fail"
  /\ Len(sent) = Len(pre.sent) + 1
  /\ state = "latentState"

\* C10: the LogonTimeout event yields latent with a logged timeout event;
\* every other timeout event returns the logon state unchanged, with no log
\* entry, no store change and no outbound message.
C10_Timeout ==
  ev.op = "Timeout" =>
    /\ ev.e = LogonTimeout =>
         /\ state = "latentState"
         /\ log = Append(pre.log, <<"event", "Timed out waiting for logon response", 0>>)
    /\ ev.e # LogonTimeout =>
         /\ state = "logonState"
         /\ log = pre.log
         /\ StoreUnchanged
         /\ sent = pre.sent
         /\ notified = pre.notified

C10_Witness ==
  /\ ev.op = "Timeout"
  /\ ev.e = "PeerTimeout"
  /\ pre.state = "logonState"
  /\ state = "logonState"
  /\ events = MaxEvents

\* the states a session can be in
SessionStates == {"logonState", "latentState", "inSession", "resendState"}

\* the last event went through shutdownWithReason
ShutDown == ev.op = "FixMsgIn" /\ ev.calls.send # "none"

\* C11: a stop request in the logon state yields latent and has no other
\* effect: no log entry, no outbound message, no store change, no
\* notification; a repeated stop request leaves the session latent.
C11_Stop ==
  /\ ev.op = "Stop" =>
       /\ state = "latentState"
       /\ log = pre.log
       /\ sent = pre.sent
       /\ StoreUnchanged
       /\ notified = pre.notified
       /\ ev.calls = NoCalls
  /\ StopResult(StopResult(Session)) = StopResult(Session)
  /\ StopResult(StopResult(Session)).state = "latentState"

C11_Witness ==
  /\ ev.op = "Stop"
  /\ pre.state = "logonState"
  /\ state = "latentState"
  /\ events = MaxEvents
  /\ Len(log) > 0

\* C12: after any sequence of events both sequence counters of the store
\* are strictly positive, the value installed by the forced correction
\* included.
C12_CountersPositive ==
  /\ nextSenderMsgSeqNum >= 1
  /\ nextTargetMsgSeqNum >= 1

\* C13: the counters never decrease and are never reset except by the
\* forced path: the next-target counter changes only by one increment
\* inside the shutdown helper, the next-sender counter changes only through
\* the force-set call of a Logout with a matching reason and the flag
\* enabled.
C13_CountersMonotone ==
  /\ nextTargetMsgSeqNum \in {pre.target, pre.target + 1}
  /\ nextTargetMsgSeqNum # pre.target =>
       /\ ShutDown
       /\ ev.calls.incr = "ok"
  /\ ev.calls.incr = "ok" => nextTargetMsgSeqNum = pre.target + 1
  /\ nextSenderMsgSeqNum # pre.sender =>
       /\ LogoutWithText(MatchingTexts)
       /\ LogonForceSenderMsgSeqNum
       /\ ev.calls.force = "ok"
       /\ nextSenderMsgSeqNum = ev.calls.forceArg

C13_Witness ==
  /\ ShutDown
  /\ nextTargetMsgSeqNum = pre.target + 1
  /\ pre.sender = 42
  /\ nextSenderMsgSeqNum = 42

\* C14: the shutdown helper yields latent whatever the outcome of the send
\* and of the increment: a failed send is logged and does not prevent the
\* increment attempt, a failed increment is logged, and neither is retried.
C14_Shutdown ==
  ShutDown =>
    /\ state = "latentState"
    /\ SentGrows
    /\ Len(NewSent) = 1
    /\ NewSent[1].ok = (ev.calls.send = "ok")
    /\ LogGrows
    /\ Len(NewLog) = 1 + (IF ev.calls.send = "fail" THEN 1 ELSE 0)
                       + (IF ev.calls.incr = "fail" THEN 1 ELSE 0)
    /\ ev.calls.send = "fail" => NewLog[2] = <<"error", "send failed", 0>>
    /\ LogonResult("RejectLogon") => ev.calls.incr # "none"
    /\ ev.calls.incr = "fail" =>
         /\ NewLog[Len(NewLog)] = <<"error", "store failed", 0>>
         /\ nextTargetMsgSeqNum = pre.target
    /\ ev.calls.incr = "ok" => nextTargetMsgSeqNum = pre.target + 1
    /\ ev.calls.incr = "none" => nextTargetMsgSeqNum = pre.target

C14_Witness ==
  /\ ShutDown
  /\ ev.calls.send = "fail"
  /\ ev.calls.incr = "fail"
  /\ Len(NewLog) = 3
  /\ state = "latentState"

\* C15: every received Logout ends in latent: Text missing, reason not
\* matching, reason matching with the flag disabled or enabled, N that
\* cannot be parsed, force-set that fails.
C15_LogoutLatent == GotType(msgTypeLogout) => state = "latentState"

C15_Witness ==
  /\ GotType(msgTypeLogout)
  /\ ev.calls.force = "fail"
  /\ pre.state = "logonState"
  /\ state = "latentState"

\* C16: every operation of the logon state is total: for every event,
\* validation result and collaborator outcome one next state is returned,
\* and it is latent, in-session, the state delegated by the too-high
\* recovery, or (only for a timeout other than LogonTimeout) the logon
\* state itself.
C16_Total ==
  /\ state = "logonState" =>
       /\ \A msg \in Messages : \A env \in EnvsOf(msg) :
            FixMsgInResult(Session, msg, env).state
              \in {"latentState", "inSession", "resendState"}
       /\ \A e \in TimeoutEvents :
            TimeoutResult(Session, e).state
              = IF e = LogonTimeout THEN "latentState" ELSE "logonState"
       /\ StopResult(Session).state = "latentState"
  /\ ev.op \in {"FixMsgIn", "Timeout", "Stop"} =>
       /\ state \in SessionStates
       /\ state = "logonState" => (ev.op = "Timeout" /\ ev.e # LogonTimeout)
       /\ state = "resendState" =>
            (LogonResult("targetTooHigh") /\ ev.calls.doTargetTooHigh = "ok")
       /\ state = "inSession" => ev.op = "FixMsgIn"

C16_Witness ==
  /\ LogonResult("targetTooHigh")
  /\ ev.calls.doTargetTooHigh = "ok"
  /\ pre.state = "logonState"
  /\ state = "resendState"

\* C17: every abnormal path out of the message and timeout handling logs
\* at least one event or error before latent is returned.
C17_AbnormalLogged ==
  (ev.op \in {"FixMsgIn", "Timeout"} /\ state = "latentState") =>
    /\ LogGrows
    /\ Len(NewLog) >= 1

C17_Witness ==
  /\ GotType("0")
  /\ state = "latentState"
  /\ NewLog = <<<<"event", "Invalid Session State: Received Msg", 0>>>>

\* C18: in-session is returned only for a Logon whose validation returned
\* no error, and the application is notified if and only if that happens:
\* the number of notifications equals the number of logon to in-session
\* transitions.
C18_NotifiedIffInSession ==
  /\ notified = inSessions
  /\ notified \in {pre.notified, pre.notified + 1}
  /\ notified # pre.notified <=> (ev.op = "FixMsgIn" /\ state = "inSession")
  /\ state = "inSession" => LogonResult("nil")

C18_Witness ==
  /\ notified = 2
  /\ inSessions = 2
  /\ state = "inSession"

\* C19: a validation error that is none of rejected, too-low and too-high
\* is not treated as success: the state-error handler logs it, the state is
\* latent, no logout is sent, the next-target counter is not incremented
\* and the application is not notified.
C19_OtherLogonError ==
  LogonResult("other") =>
    /\ state = "latentState"
    /\ log = Append(pre.log, <<"error", "logon validation failed", 0>>)
    /\ sent = pre.sent
    /\ ev.calls.send = "none"
    /\ ev.calls.incr = "none"
    /\ StoreUnchanged
    /\ notified = pre.notified

C19_Witness ==
  /\ LogonResult("other")
  /\ pre.state = "logonState"
  /\ state = "latentState"
  /\ notified = 0

\* C20: handling a Logout never sends a message, never changes the
\* next-target counter and never notifies the application; the only store
\* operation it can perform is one force-set of the next sender number.
C20_LogoutFrame ==
  GotType(msgTypeLogout) =>
    /\ sent = pre.sent
    /\ ev.calls.send = "none"
    /\ nextTargetMsgSeqNum = pre.target
    /\ ev.calls.incr = "none"
    /\ notified = pre.notified
    /\ ev.calls.handleLogon = "none"
    /\ ev.calls.doTargetTooHigh = "none"
    /\ nextSenderMsgSeqNum # pre.sender =>
         /\ ev.calls.force = "ok"
         /\ nextSenderMsgSeqNum = ev.calls.forceArg

C20_Witness ==
  /\ GotType(msgTypeLogout)
  /\ ev.calls.force = "ok"
  /\ nextSenderMsgSeqNum # pre.sender
  /\ nextTargetMsgSeqNum = pre.target
  /\ sent = pre.sent

====
